---- MODULE Spec2Model ----
(***************************************************************************)
(* A model of the CV question-answering application: loader.py (chunking   *)
(* of a CV by a language model, with its fallback), rag.py (the vector     *)
(* index, retrieval, answer and report generation) and app.py (the         *)
(* Streamlit script: one run of the script per user interaction, any       *)
(* number of browser sessions sharing one index).                          *)
(*                                                                         *)
(* Python strings are sequences of one-character strings, so that lower(), *)
(* strip(), split(), slicing and the `in` substring test are computed.     *)
(***************************************************************************)
EXTENDS Integers, Sequences, FiniteSets, TLC

VARIABLES
    \* ---- app.py / rag.py: the sessions and the shared index
    session_file_hashes,  \* st.session_state.session_file_hashes, per session
    file_info,            \* st.session_state.file_info, per session
    uploaded_files,       \* the value of tab 1's file_uploader widget, per session
    pc,                   \* where each session's script run stands
    run,                  \* the button whose press started each session's run
    points,               \* the points of the Qdrant collection, in upsert order
    index_calls,          \* history: calls of index_documents per file hash
    runs,                 \* history: number of script runs started
    ev,                   \* observation of the step just taken
    \* ---- loader.llm_structural_chunking called on its own
    cText, cReply, cOut,
    \* ---- rag.generate_answer and tab 1's answer stage called on their own
    aQuery, aContexts, aCandidates, aOut

appVars == <<session_file_hashes, file_info, uploaded_files, pc, run, points,
             index_calls, runs, ev>>
chunkVars == <<cText, cReply, cOut>>
answerVars == <<aQuery, aContexts, aCandidates, aOut>>
vars == <<appVars, chunkVars, answerVars>>

----------------------------------------------------------------------------
(* Bounds of the model.                                                    *)

MaxBatch == 2      \* files held by tab 1's uploader widget at once
MaxRuns == 3       \* script runs started, over all sessions
MaxSections == 2   \* sections in one reply of the chunking model
MaxContexts == 2   \* contexts handed to generate_answer called on its own
MaxFragments == 2  \* fragments a question is put together from

----------------------------------------------------------------------------
(* Python str operations.                                                  *)

Rep(c, n) == [i \in 1..n |-> c]

IsSpace(c) == c \in {" ", "\n", "\t"}

UpperChars == <<"A", "B", "C", "D", "E", "F", "G", "H", "I", "J", "K", "L", "M", "N", "O", "P", "Q", "R", "S", "T", "U", "V", "W", "X", "Y", "Z">>
LowerChars == <<"a", "b", "c", "d", "e", "f", "g", "h", "i", "j", "k", "l", "m", "n", "o", "p", "q", "r", "s", "t", "u", "v", "w", "x", "y", "z">>

\* str.lower(), one character
LowerChar(c) ==
    IF \E i \in 1..Len(UpperChars) : UpperChars[i] = c
    THEN LowerChars[CHOOSE i \in 1..Len(UpperChars) : UpperChars[i] = c]
    ELSE c

\* str.lower()
Lower(s) == [i \in 1..Len(s) |-> LowerChar(s[i])]

\* str.strip()
Strip(s) ==
    LET keep == {i \in 1..Len(s) : ~IsSpace(s[i])}
    IN  IF keep = {} THEN <<>>
        ELSE LET first == CHOOSE i \in keep : \A j \in keep : i <= j
                 last == CHOOSE i \in keep : \A j \in keep : j <= i
             IN  SubSeq(s, first, last)

\* sub in s
Contains(sub, s) ==
    \E i \in 0..(Len(s) - Len(sub)) : SubSeq(s, i + 1, i + Len(sub)) = sub

\* s[:n]
Prefix(s, n) == SubSeq(s, 1, IF Len(s) < n THEN Len(s) ELSE n)

\* str.split(): the maximal runs of non-whitespace characters, as a set
\* (app.py only asks whether any part occurs in the question)
Split(s) ==
    {SubSeq(s, i, j) : <<i, j>> \in
        {p \in (1..Len(s)) \X (1..Len(s)) :
            /\ p[1] <= p[2]
            /\ \A k \in p[1]..p[2] : ~IsSpace(s[k])
            /\ (p[1] = 1 \/ IsSpace(s[p[1] - 1]))
            /\ (p[2] = Len(s) \/ IsSpace(s[p[2] + 1]))}}

Range(f) == {f[x] : x \in DOMAIN f}

\* all sequences over S of length at most n
SeqsUpTo(S, n) == UNION {[1..k -> S] : k \in 0..n}

\* string literals of the program
Unknown == <<"U", "n", "k", "n", "o", "w", "n">>
Existing == <<"e", "x", "i", "s", "t", "i", "n", "g">>
General == <<"G", "e", "n", "e", "r", "a", "l">>
FullText == <<"F", "u", "l", "l", " ", "T", "e", "x", "t">>

----------------------------------------------------------------------------
(* Values of a parsed JSON reply: a key may be missing, hold a string, or  *)
(* hold something that is no string (null, a number): "other".             *)

Missing == [t |-> "missing", v |-> <<>>]
Other == [t |-> "other", v |-> <<>>]
Str(s) == [t |-> "str", v |-> s]

\* dict.get(key, default)
DictGet(val, default) == IF val.t = "missing" THEN default ELSE val

----------------------------------------------------------------------------
(* loader.py                                                               *)

PromptLimit == 6000   \* text[:6000] in the chunking prompt
MinContent == 40      \* len(content.strip()) > 40

\* the chunking prompt, by the part of it that varies: the CV text sent
ChunkingPrompt(text) == Prefix(text, PromptLimit)

\* fallback_chunking with a fault: stores what was sent to the model
fallback_chunking_prefix(text, candidate_name) ==
    [chunks |-> << [content |-> Prefix(text, PromptLimit),
                    metadata |-> [section |-> FullText,
                                  candidate_name |-> candidate_name]] >>,
     candidate_name |-> candidate_name]

fallback_chunking(text, candidate_name) ==
    [chunks |-> << [content |-> text,
                    metadata |-> [section |-> FullText,
                                  candidate_name |-> candidate_name]] >>,
     candidate_name |-> candidate_name]

\* evaluating the comprehension's condition on one section raises:
\* s.get on a section that is no dict, .strip() on a content that is no string
SectionRaises(s) ==
    \/ ~s.dict
    \/ DictGet(s.content, Str(<<>>)).t # "str"

\* the comprehension's condition, on a section that does not raise
SectionKept(s) == Len(Strip(DictGet(s.content, Str(<<>>)).v)) > MinContent

RECURSIVE SectionChunks(_, _)
SectionChunks(sections, candidate_name) ==
    IF sections = <<>> THEN <<>>
    ELSE LET s == Head(sections)
             rest == SectionChunks(Tail(sections), candidate_name)
         IN  IF SectionKept(s)
             THEN << [content |-> s.content.v,
                      metadata |-> [section |-> DictGet(s.section_title, Str(General)).v,
                                    candidate_name |-> candidate_name]] >> \o rest
             ELSE rest

Raised == [raised |-> TRUE, chunks |-> <<>>, candidate_name |-> <<>>]
Returned(r) == [raised |-> FALSE, chunks |-> r.chunks, candidate_name |-> r.candidate_name]

\* the body of the try block (loader.py 60-94): what it returns, or that it raised
TryChunking(text, reply) ==
    IF reply.kind = "raise" THEN Raised
    ELSE IF reply.kind = "nojson" THEN Returned(fallback_chunking(text, Unknown))
    ELSE IF reply.kind = "badjson" THEN Raised
    ELSE LET name == DictGet(reply.candidate_name, Str(Unknown))
             sections == DictGet(reply.sections, [t |-> "list", v |-> <<>>])
         IN  IF name.t # "str" THEN Raised
             ELSE IF sections.t # "list" THEN Raised
             ELSE IF \E i \in 1..Len(sections.v) : SectionRaises(sections.v[i]) THEN Raised
             ELSE LET candidate_name == Strip(name.v)
                      chunks == SectionChunks(sections.v, candidate_name)
                  IN  IF chunks # <<>>
                      THEN Returned([chunks |-> chunks, candidate_name |-> candidate_name])
                      ELSE Returned(fallback_chunking(text, candidate_name))

llm_structural_chunking(text, reply) ==
    LET r == TryChunking(text, reply)
    IN  IF r.raised THEN Returned(fallback_chunking(text, Unknown)) ELSE r

----------------------------------------------------------------------------
(* rag.py: the vector index.  A point is its id and its payload; the       *)
(* vector is the embedding model's and is not modelled.                    *)

TopK == 10   \* retrieve's default top_k

\* index_documents with a fault: candidate_name_lower stored without lower()
index_documents_nolower(pts, chunks, file_hash, candidate_name) ==
    pts \o [i \in 1..Len(chunks) |->
                [id |-> Len(pts) + i,
                 content |-> chunks[i].content,
                 section |-> chunks[i].metadata.section,
                 file_hash |-> file_hash,
                 candidate_name |-> candidate_name,
                 candidate_name_lower |-> Strip(candidate_name)]]

\* the collection after index_documents(chunks, file_hash, candidate_name);
\* uuid4 ids are fresh, here the position in upsert order
index_documents(pts, chunks, file_hash, candidate_name) ==
    pts \o [i \in 1..Len(chunks) |->
                [id |-> Len(pts) + i,
                 content |-> chunks[i].content,
                 section |-> chunks[i].metadata.section,
                 file_hash |-> file_hash,
                 candidate_name |-> candidate_name,
                 candidate_name_lower |-> Strip(Lower(candidate_name))]]

document_exists(pts, file_hash) ==
    \E i \in 1..Len(pts) : pts[i].file_hash = file_hash

\* candidate_names is None, or a list
NoNames == [none |-> TRUE, v |-> <<>>]
Names(l) == [none |-> FALSE, v |-> l]

\* QueryFilter with a fault: the candidate condition replaces the file_hash one
QueryFilter_candidate_only(p, file_hashes, candidate_names) ==
    IF ~candidate_names.none /\ candidate_names.v # <<>>
    THEN p.candidate_name_lower \in {Strip(Lower(n)) : n \in Range(candidate_names.v)}
    ELSE p.file_hash \in Range(file_hashes)

\* Filter(must=must_conditions) on one point (rag.py 82-93)
QueryFilter(p, file_hashes, candidate_names) ==
    /\ p.file_hash \in Range(file_hashes)
    /\ (~candidate_names.none /\ candidate_names.v # <<>>)
          => p.candidate_name_lower \in {Strip(Lower(n)) : n \in Range(candidate_names.v)}

RECURSIVE InOrder(_, _)
\* the points of pts at the positions in S, in upsert order
InOrder(pts, S) ==
    IF pts = <<>> THEN <<>>
    ELSE LET n == Len(pts)
             front == InOrder(SubSeq(pts, 1, n - 1), S)
         IN  IF n \in S THEN Append(front, pts[n]) ELSE front

\* qdrant.query_points(query, filter, limit): the possible hit lists.  Which
\* matching points are the best `limit` is the embedding model's ranking: any
\* choice is possible.  Their order is not read by any property checked on the
\* sessions, and is upsert order here; generate_answer is checked on its own
\* with contexts in every order.
QueryPoints(pts, file_hashes, candidate_names, limit) ==
    LET matching == {i \in 1..Len(pts) : QueryFilter(pts[i], file_hashes, candidate_names)}
        k == IF Cardinality(matching) < limit THEN Cardinality(matching) ELSE limit
    IN  {InOrder(pts, S) : S \in {T \in SUBSET matching : Cardinality(T) = k}}

Context(p) == [content |-> p.content, candidate_name |-> p.candidate_name,
               section |-> p.section]

\* retrieve(query, file_hashes, candidate_names): the results it may return
retrieve(pts, file_hashes, candidate_names) ==
    IF file_hashes = <<>>
    THEN {[queried |-> FALSE, hits |-> <<>>, contexts |-> <<>>]}
    ELSE {[queried |-> TRUE, hits |-> hits,
           contexts |-> [i \in 1..Len(hits) |-> Context(hits[i])]] :
             hits \in QueryPoints(pts, file_hashes, candidate_names, TopK)}

----------------------------------------------------------------------------
(* rag.py: answer and report generation.  A call of the generation model   *)
(* either raises or returns a reply.                                       *)

NoInfoMsg == <<"N", "o", " ", "r", "e", "l", "e", "v", "a", "n", "t", " ", "i", "n", "f", "o", "r", "m", "a", "t", "i", "o", "n", " ", "f", "o", "u", "n", "d", " ", "i", "n", " ", "t", "h", "e", " ", "p", "r", "o", "v", "i", "d", "e", "d", " ", "C", "V", " ", "e", "x", "c", "e", "r", "p", "t", "s", ".">>
InjectionMsg == <<"T", "h", "e", " ", "q", "u", "e", "s", "t", "i", "o", "n", " ", "c", "o", "n", "t", "a", "i", "n", "s", " ", "i", "n", "s", "t", "r", "u", "c", "t", "i", "o", "n", "s", " ", "u", "n", "r", "e", "l", "a", "t", "e", "d", " ", "t", "o", " ", "t", "h", "e", " ", "C", "V", " ", "c", "o", "n", "t", "e", "x", "t", ".">>
AnswerError == <<"E", "r", "r", "o", "r", " ", "g", "e", "n", "e", "r", "a", "t", "i", "n", "g", " ", "a", "n", "s", "w", "e", "r", ":", " ">>
ReportError == <<"E", "r", "r", "o", "r", " ", "g", "e", "n", "e", "r", "a", "t", "i", "n", "g", " ", "C", "V", " ", "r", "e", "p", "o", "r", "t", ":", " ">>

LlmRaise == [raises |-> TRUE, text |-> <<"t", "i", "m", "e", "o", "u", "t">>]
LlmReply(t) == [raises |-> FALSE, text |-> t]
LlmOutcomes == {LlmRaise, LlmReply(<<" ", "-", " ", "o", "k", "\n">>)}

suspicious_patterns ==
    << <<"i", "g", "n", "o", "r", "e", " ", "p", "r", "e", "v", "i", "o", "u", "s", " ", "i", "n", "s", "t", "r", "u", "c", "t", "i", "o", "n", "s">>,
       <<"d", "i", "s", "r", "e", "g", "a", "r", "d">>,
       <<"o", "v", "e", "r", "r", "i", "d", "e">>,
       <<"i", "n", "s", "t", "e", "a", "d", " ", "d", "o">>,
       <<"j", "u", "s", "t", " ", "o", "u", "t", "p", "u", "t">> >>

Block(c) == [candidate |-> c.candidate_name, section |-> c.section,
             excerpt |-> c.content]

NoPrompt == [candidates_list |-> {}, blocks |-> <<>>, question |-> <<>>]

\* the prompt by its parts: the sorted distinct candidates, one block per
\* context in order, the question
AnswerPrompt(query, contexts, available_candidates) ==
    [candidates_list |-> Range(available_candidates),
     blocks |-> [i \in 1..Len(contexts) |-> Block(contexts[i])],
     question |-> query]

\* Suspicious with a fault: the question is not lower-cased
Suspicious_case_sensitive(query) ==
    \E i \in 1..Len(suspicious_patterns) : Contains(suspicious_patterns[i], query)

\* any(p in query.lower() for p in suspicious_patterns)
Suspicious(query) ==
    \E i \in 1..Len(suspicious_patterns) :
        Contains(suspicious_patterns[i], Lower(query))

\* generate_answer with a fault: no check for empty contexts
generate_answer_no_empty_check(query, contexts, available_candidates, llm) ==
    IF Suspicious(query)
    THEN [called |-> FALSE, prompt |-> NoPrompt, answer |-> InjectionMsg]
    ELSE [called |-> TRUE,
          prompt |-> AnswerPrompt(query, contexts, available_candidates),
          answer |-> IF llm.raises THEN AnswerError \o llm.text ELSE Strip(llm.text)]

generate_answer(query, contexts, available_candidates, llm) ==
    IF contexts = <<>>
    THEN [called |-> FALSE, prompt |-> NoPrompt, answer |-> NoInfoMsg]
    ELSE IF Suspicious(query)
    THEN [called |-> FALSE, prompt |-> NoPrompt, answer |-> InjectionMsg]
    ELSE [called |-> TRUE,
          prompt |-> AnswerPrompt(query, contexts, available_candidates),
          answer |-> IF llm.raises THEN AnswerError \o llm.text ELSE Strip(llm.text)]

ReportLimit == 7000   \* cv_text[:7000] in the report prompt

generate_cv_strength_report(cv_text, job_description, llm) ==
    [called |-> TRUE,
     prompt |-> [job_description |-> job_description,
                 cv |-> Prefix(cv_text, ReportLimit)],
     report |-> IF llm.raises THEN ReportError \o llm.text ELSE Strip(llm.text)]

----------------------------------------------------------------------------
(* app.py: the Streamlit script.  Every user interaction starts one run of *)
(* the whole script for that session: the sidebar, tab 1's upload loop     *)
(* over the uploader widget's files, tab 1's search handler, tab 2's       *)
(* report handler.  Sessions run concurrently; a session's run is          *)
(* interleaved with the others' at each call of the index.  A session      *)
(* takes its next interaction when its run has ended.                      *)

\* the browser sessions sharing the index
Sessions == {1, 2}

\* the PDF files, each known by its bytes; file 1 has no extractable text
Files == {1, 2, 3}
BlankFile == 1

\* extract_text_from_pdf: the text pypdf finds in the file
extract_text_from_pdf(f) ==
    IF f = BlankFile THEN <<" ", "\n">> ELSE Rep("c", f) \o <<"\n">>

\* calculate_file_hash: sha256 of the bytes, one hash per distinct file
calculate_file_hash(f) == f

\* uploaded_file.name
FileName(f) == f

\* the replies of the chunking model the sessions may get, for any file
LongA == Rep("a", MinContent + 1)
LongB == <<" ">> \o Rep("b", MinContent + 1)
Short40 == <<" ">> \o Rep("s", MinContent) \o <<"\n">>

Section(title, content) == [dict |-> TRUE, section_title |-> title, content |-> content]
NonDictSection == [dict |-> FALSE, section_title |-> Missing, content |-> Missing]
JsonList(l) == [t |-> "list", v |-> l]

ReplyRaise == [kind |-> "raise", candidate_name |-> Missing, sections |-> Missing]
ReplyNoJson == [kind |-> "nojson", candidate_name |-> Missing, sections |-> Missing]
ReplyBadJson == [kind |-> "badjson", candidate_name |-> Missing, sections |-> Missing]
ReplyJson(name, sections) == [kind |-> "json", candidate_name |-> name, sections |-> sections]

AppReplies ==
    { ReplyRaise,
      ReplyJson(Str(<<" ", "B", "o", " ", "L", "i", "\n">>),
                JsonList(<< Section(Str(<<"E", "d", "u", "c", "a", "t", "i", "o", "n">>), Str(LongA)),
                            Section(Missing, Str(Short40)),
                            Section(Missing, Str(LongB)) >>)) }

\* the questions typed into tab 1
Queries == { <<"b", "o", " ", "l", "i", "?">>, <<"L", "I">>, <<"u", "n", "k", "n", "o", "w", "n">>, <<" ">>, <<"O", "v", "e", "r", "r", "i", "d", "e">> }

\* the job descriptions pasted into tab 2
JobDescriptions == { <<>>, <<" ", "\n">>, <<"j", "d">> }

\* file_info is a dict: its entries in insertion order
DictKeys(d) == {d[i].key : i \in 1..Len(d)}

\* d[k] = {"name": name, "candidate": candidate}
DictSet(d, k, name, candidate) ==
    IF k \in DictKeys(d)
    THEN [i \in 1..Len(d) |->
            IF d[i].key = k THEN [key |-> k, name |-> name, candidate |-> candidate]
            ELSE d[i]]
    ELSE Append(d, [key |-> k, name |-> name, candidate |-> candidate])

RECURSIVE Mentioned(_, _, _)
\* app.py 138-145: the candidates of file_info the question names
Mentioned(entries, q_lower, acc) ==
    IF entries = <<>> THEN acc
    ELSE LET name == Strip(Head(entries).candidate)
             name_parts == Split(Lower(name))
             rest == Tail(entries)
         IN  IF name = <<>> \/ Lower(name) \in {Lower(Unknown), Existing}
             THEN Mentioned(rest, q_lower, acc)
             ELSE IF /\ \/ Contains(Lower(name), q_lower)
                        \/ \E part \in name_parts : Contains(part, q_lower)
                     /\ name \notin Range(acc)
             THEN Mentioned(rest, q_lower, Append(acc, name))
             ELSE Mentioned(rest, q_lower, acc)

mentioned_candidates(info, query) == Mentioned(info, Lower(query), <<>>)

\* app.py 161-164
candidates_in_scope(info) == [i \in 1..Len(info) |-> info[i].candidate]

\* ---- a session's place in its script run
Idle == [at |-> "idle", i |-> 0]
NoRun == "none"
NoEvent == [kind |-> "none"]
NotCalled == [called |-> FALSE]

\* app.py 159-181: what tab 1 does with the contexts retrieve returned
AnswerStage(query, contexts, candidates) ==
    IF contexts # <<>>
    THEN {[generated |-> TRUE,
           answer |-> generate_answer(query, contexts, candidates, llm)] :
             llm \in LlmOutcomes}
    ELSE {[generated |-> FALSE,
           answer |-> [called |-> FALSE, prompt |-> NoPrompt, answer |-> <<>>]]}

\* after the upload loop has dealt with files 1..i-1: the next file, or the
\* handler of the button pressed, or the end of the run
After(files, i, button) ==
    IF i <= Len(files) THEN [at |-> "file", i |-> i]
    ELSE IF button = "search" THEN [at |-> "search", i |-> 0]
    ELSE IF button = "analyze" THEN [at |-> "analyze", i |-> 0]
    ELSE Idle

RunAfter(s, at) == IF at = Idle THEN [run EXCEPT ![s] = NoRun] ELSE run

Init ==
    /\ session_file_hashes = [s \in Sessions |-> <<>>]
    /\ file_info = [s \in Sessions |-> <<>>]
    /\ uploaded_files = [s \in Sessions |-> <<>>]
    /\ pc = [s \in Sessions |-> Idle]
    /\ run = [s \in Sessions |-> NoRun]
    /\ points = <<>>
    /\ index_calls = [h \in Files |-> 0]
    /\ runs = 0
    /\ ev = NoEvent
    /\ cText = <<>> /\ cReply = ReplyRaise /\ cOut = NotCalled
    /\ aQuery = <<>> /\ aContexts = <<>> /\ aCandidates = <<>> /\ aOut = NotCalled

StartRun(s, r) ==
    /\ pc[s] = Idle
    /\ runs < MaxRuns
    /\ runs' = runs + 1
    /\ LET at == After(uploaded_files'[s], 1, r)
       IN  /\ pc' = [pc EXCEPT ![s] = at]
           /\ run' = [run EXCEPT ![s] = IF at = Idle THEN NoRun ELSE r]
    /\ ev' = NoEvent
    /\ UNCHANGED <<points, index_calls, chunkVars, answerVars>>

\* The question, the CV and the job description of a run are widget values that
\* only the handler of the button reads; they are drawn there.

\* the user adds a file to tab 1's uploader
AddFile(s) ==
    /\ Len(uploaded_files[s]) < MaxBatch
    /\ \E f \in Files :
          uploaded_files' = [uploaded_files EXCEPT ![s] = Append(@, f)]
    /\ StartRun(s, NoRun)
    /\ UNCHANGED <<session_file_hashes, file_info>>

\* the user removes a file from tab 1's uploader
RemoveFile(s) ==
    /\ \E i \in 1..Len(uploaded_files[s]) :
          uploaded_files' = [uploaded_files EXCEPT
              ![s] = SubSeq(@, 1, i - 1) \o SubSeq(@, i + 1, Len(@))]
    /\ StartRun(s, NoRun)
    /\ UNCHANGED <<session_file_hashes, file_info>>

\* app.py 52-55: Clear Session, shown when the session holds a CV; st.rerun()
\* starts the script again
PressClear(s) ==
    /\ session_file_hashes[s] # <<>>
    /\ session_file_hashes' = [session_file_hashes EXCEPT ![s] = <<>>]
    /\ file_info' = [file_info EXCEPT ![s] = <<>>]
    /\ UNCHANGED uploaded_files
    /\ StartRun(s, NoRun)

PressSearch(s) ==
    /\ UNCHANGED <<session_file_hashes, file_info, uploaded_files>>
    /\ StartRun(s, "search")

PressAnalyze(s) ==
    /\ UNCHANGED <<session_file_hashes, file_info, uploaded_files>>
    /\ StartRun(s, "analyze")

\* InSession with a fault: the test always fails
InSession_never(file_hash, hashes) == FALSE

\* app.py 71: file_hash in st.session_state.session_file_hashes
InSession(file_hash, hashes) == file_hash \in Range(hashes)

\* NoText with a fault: the test always fails
NoText_never(text) == FALSE

\* app.py 98 and 213: not text.strip()
NoText(text) == Strip(text) = <<>>

\* app.py 68-74: the next file of the loop, up to the answer of document_exists
FileStep(s) ==
    /\ pc[s].at = "file"
    /\ LET i == pc[s].i
           file_hash == calculate_file_hash(uploaded_files[s][i])
           next == After(uploaded_files[s], i + 1, run[s])
       IN  IF InSession(file_hash, session_file_hashes[s])
           THEN /\ pc' = [pc EXCEPT ![s] = next]
                /\ run' = RunAfter(s, next)
                /\ ev' = [kind |-> "skip", s |-> s, why |-> "in session"]
           ELSE IF document_exists(points, file_hash)
           THEN /\ pc' = [pc EXCEPT ![s] = [at |-> "exists", i |-> i]]
                /\ ev' = NoEvent
                /\ UNCHANGED run
           ELSE /\ pc' = [pc EXCEPT ![s] = [at |-> "process", i |-> i]]
                /\ ev' = NoEvent
                /\ UNCHANGED run
    /\ UNCHANGED <<session_file_hashes, file_info, uploaded_files, points,
                   index_calls, runs, chunkVars, answerVars>>

\* st.session_state.session_file_hashes.append(file_hash)
SessionAppend(hashes, file_hash) == Append(hashes, file_hash)

\* app.py 75-94: the file is in the index; its candidate is read from one of
\* its points (scroll with limit=1 returns any one of them)
ExistsStep(s) ==
    /\ pc[s].at = "exists"
    /\ LET i == pc[s].i
           f == uploaded_files[s][i]
           file_hash == calculate_file_hash(f)
           found == {p \in Range(points) : p.file_hash = file_hash}
           next == After(uploaded_files[s], i + 1, run[s])
       IN  /\ \E candidate_name \in
                 IF found = {} THEN {Unknown} ELSE {p.candidate_name : p \in found} :
                 /\ session_file_hashes' = [session_file_hashes EXCEPT
                        ![s] = SessionAppend(@, file_hash)]
                 /\ file_info' = [file_info EXCEPT
                        ![s] = DictSet(@, file_hash, FileName(f), candidate_name)]
                 /\ ev' = NoEvent
           /\ pc' = [pc EXCEPT ![s] = next]
           /\ run' = RunAfter(s, next)
    /\ UNCHANGED <<uploaded_files, points, index_calls, runs, chunkVars, answerVars>>

\* app.py 96-122: the file is not in the index: extract, chunk, index, add.
\* Extraction and the chunking model touch nothing shared, so the step is taken
\* at the upsert.
ProcessStep(s) ==
    /\ pc[s].at = "process"
    /\ LET i == pc[s].i
           f == uploaded_files[s][i]
           file_hash == calculate_file_hash(f)
           text == extract_text_from_pdf(f)
           next == After(uploaded_files[s], i + 1, run[s])
       IN  /\ IF NoText(text)
              THEN /\ ev' = [kind |-> "skip", s |-> s, why |-> "no text"]
                   /\ UNCHANGED <<session_file_hashes, file_info, points, index_calls>>
              ELSE \E reply \in AppReplies :
                     LET r == llm_structural_chunking(text, reply)
                     IN  IF r.chunks = <<>>
                         THEN /\ ev' = [kind |-> "skip", s |-> s, why |-> "no chunks"]
                              /\ UNCHANGED <<session_file_hashes, file_info, points,
                                             index_calls>>
                         ELSE /\ points' = index_documents(points, r.chunks, file_hash,
                                                           r.candidate_name)
                              /\ index_calls' = [index_calls EXCEPT ![file_hash] = @ + 1]
                              /\ session_file_hashes' = [session_file_hashes EXCEPT
                                     ![s] = SessionAppend(@, file_hash)]
                              /\ file_info' = [file_info EXCEPT
                                     ![s] = DictSet(@, file_hash, FileName(f),
                                                    r.candidate_name)]
                              /\ ev' = NoEvent
           /\ pc' = [pc EXCEPT ![s] = next]
           /\ run' = RunAfter(s, next)
    /\ UNCHANGED <<uploaded_files, runs, chunkVars, answerVars>>

\* app.py 131-181: the Search button
SearchStep(s) ==
    /\ pc[s].at = "search"
    /\ \E query \in Queries :
       LET file_hashes == session_file_hashes[s]
           mentioned == mentioned_candidates(file_info[s], query)
           candidate_names == IF mentioned # <<>> THEN Names(mentioned) ELSE NoNames
       IN  IF Strip(query) = <<>>
           THEN ev' = NoEvent
           ELSE IF file_hashes = <<>>
           THEN ev' = [kind |-> "search", s |-> s, error |-> TRUE]
           ELSE \E r \in retrieve(points, file_hashes, candidate_names) :
                  \E a \in AnswerStage(query, r.contexts,
                                       candidates_in_scope(file_info[s])) :
                     ev' = [kind |-> "search", s |-> s, error |-> FALSE,
                            query |-> query,
                            file_hashes |-> file_hashes,
                            candidate_names |-> candidate_names,
                            retrieved |-> r,
                            generated |-> a.generated,
                            answer |-> a.answer]
    /\ pc' = [pc EXCEPT ![s] = Idle]
    /\ run' = [run EXCEPT ![s] = NoRun]
    /\ UNCHANGED <<session_file_hashes, file_info, uploaded_files, points,
                   index_calls, runs, chunkVars, answerVars>>

\* ReportOutcomes with a fault: the job description is not checked
ReportOutcomes_no_jd_check(uploaded_cv, job_description) ==
    IF uploaded_cv = 0
    THEN {[error |-> "cv", called |-> FALSE]}
    ELSE LET cv_text == extract_text_from_pdf(uploaded_cv)
         IN  IF NoText(cv_text)
             THEN {[error |-> "text", called |-> FALSE]}
             ELSE {[error |-> "", called |-> rep.called, prompt |-> rep.prompt,
                    report |-> rep.report] :
                     rep \in {generate_cv_strength_report(cv_text, job_description, llm) :
                                llm \in LlmOutcomes}}

\* app.py 204-222: what the Analyze CV handler may do with its inputs
ReportOutcomes(uploaded_cv, job_description) ==
    IF uploaded_cv = 0
    THEN {[error |-> "cv", called |-> FALSE]}
    ELSE IF Strip(job_description) = <<>>
    THEN {[error |-> "job description", called |-> FALSE]}
    ELSE LET cv_text == extract_text_from_pdf(uploaded_cv)
         IN  IF NoText(cv_text)
             THEN {[error |-> "text", called |-> FALSE]}
             ELSE {[error |-> "", called |-> rep.called, prompt |-> rep.prompt,
                    report |-> rep.report] :
                     rep \in {generate_cv_strength_report(cv_text, job_description, llm) :
                                llm \in LlmOutcomes}}

\* app.py 202-222: the Analyze CV button
AnalyzeStep(s) ==
    /\ pc[s].at = "analyze"
    /\ \E uploaded_cv \in {0} \cup Files, job_description \in JobDescriptions :
         \E out \in ReportOutcomes(uploaded_cv, job_description) :
            ev' = [kind |-> "analyze", s |-> s, uploaded_cv |-> uploaded_cv,
                   job_description |-> job_description, out |-> out]
    /\ pc' = [pc EXCEPT ![s] = Idle]
    /\ run' = [run EXCEPT ![s] = NoRun]
    /\ UNCHANGED <<session_file_hashes, file_info, uploaded_files, points,
                   index_calls, runs, chunkVars, answerVars>>

\* the lists of file hashes and of candidate names retrieve is called with
\* when it is called on its own
HashLists == { <<>>, <<3>>, <<2, 3>> }
NameLists == { NoNames, Names(<<>>), Names(<< <<"Z", "e", "d">>, <<" ", "B", "O", " ", "L", "i", " ">> >>) }

\* rag.retrieve called on its own on the index as it stands
CallRetrieve ==
    /\ \A s \in Sessions : pc[s] = Idle
    /\ \E file_hashes \in HashLists, candidate_names \in NameLists :
         \E r \in retrieve(points, file_hashes, candidate_names) :
            ev' = [kind |-> "retrieve", file_hashes |-> file_hashes,
                   candidate_names |-> candidate_names, retrieved |-> r]
    /\ UNCHANGED <<session_file_hashes, file_info, uploaded_files, pc, run, points,
                   index_calls, runs, chunkVars, answerVars>>

\* one step of session s's script run
SessionStep(s) ==
    \/ FileStep(s)
    \/ ExistsStep(s)
    \/ ProcessStep(s)
    \/ SearchStep(s)
    \/ AnalyzeStep(s)

Next ==
    \/ \E s \in Sessions : AddFile(s)
    \/ \E s \in Sessions : RemoveFile(s)
    \/ \E s \in Sessions : PressClear(s)
    \/ \E s \in Sessions : PressSearch(s)
    \/ \E s \in Sessions : PressAnalyze(s)
    \/ \E s \in Sessions : FileStep(s)
    \/ \E s \in Sessions : ExistsStep(s)
    \/ \E s \in Sessions : ProcessStep(s)
    \/ \E s \in Sessions : SearchStep(s)
    \/ \E s \in Sessions : AnalyzeStep(s)
    \/ CallRetrieve

Spec == Init /\ [][Next]_vars

----------------------------------------------------------------------------
(* loader.llm_structural_chunking on its own: any CV text, any reply of    *)
(* the chunking model.                                                     *)

ChunkTexts == { <<>>, <<" ", "\n">>, <<"c", "v">>, Rep("x", PromptLimit + 1) }

NameValues == { Missing, Other, Str(<<" ", "A", "l", " ">>), Str(<<"B", "o", " ", "L", "i">>) }

SectionPool ==
    { NonDictSection,
      Section(Missing, Missing),
      Section(Str(<<"S", "k", "i", "l", "l", "s">>), Other),
      Section(Str(<<"S", "k", "i", "l", "l", "s">>), Str(Short40)),
      Section(Missing, Str(LongB)) }

ChunkReplies ==
    {ReplyRaise, ReplyNoJson, ReplyBadJson}
    \cup {ReplyJson(n, s) : n \in NameValues,
            s \in {Missing, Other}
                  \cup {JsonList(l) : l \in SeqsUpTo(SectionPool, MaxSections)}}

InitChunk ==
    /\ session_file_hashes = [s \in Sessions |-> <<>>]
    /\ file_info = [s \in Sessions |-> <<>>]
    /\ uploaded_files = [s \in Sessions |-> <<>>]
    /\ pc = [s \in Sessions |-> Idle]
    /\ run = [s \in Sessions |-> NoRun]
    /\ points = <<>>
    /\ index_calls = [h \in Files |-> 0]
    /\ runs = 0
    /\ ev = NoEvent
    /\ cText \in ChunkTexts /\ cReply \in ChunkReplies /\ cOut = NotCalled
    /\ aQuery = <<>> /\ aContexts = <<>> /\ aCandidates = <<>> /\ aOut = NotCalled

CallChunking ==
    /\ ~cOut.called
    /\ cOut' = [called |-> TRUE,
                prompt |-> ChunkingPrompt(cText),
                result |-> llm_structural_chunking(cText, cReply)]
    /\ UNCHANGED <<cText, cReply, appVars, answerVars>>

NextChunk == CallChunking

SpecChunk == InitChunk /\ [][NextChunk]_vars

----------------------------------------------------------------------------
(* rag.generate_answer and tab 1's answer stage on their own: any          *)
(* question, any contexts in any order.                                    *)

Fragments ==
    { <<"W", "h", "o", " ", "i", "s", " ", "B", "o", "?", " ">>, <<" ", "D", "I", "S", "R", "E", "G", "A", "R", "D", " ", "t", "h", "a", "t">>, <<"o", "v", "e", "r">>, <<"r", "i", "d", "e">>, <<"J", "u", "s", "t", " ">>,
      <<"O", "u", "t", "p", "u", "t">>, <<"i", "n", "s", "t", "e", "a", "d", " ", " ", "d", "o">>, <<"I", "n", "s", "t", "e", "a", "d", " ", "d", "o">>, <<"i", "g", "n", "o", "r", "e", " ", "p", "r", "e", "v", "i", "o", "u", "s">>,
      <<" ", "I", "n", "s", "t", "r", "u", "c", "t", "i", "o", "n", "s">> }

RECURSIVE Concat(_)
Concat(ss) == IF ss = <<>> THEN <<>> ELSE Head(ss) \o Concat(Tail(ss))

AnswerQueries == {Concat(fs) : fs \in SeqsUpTo(Fragments, MaxFragments)}

ContextPool ==
    { [content |-> LongA, candidate_name |-> <<"B", "o", " ", "L", "i">>, section |-> <<"E", "d", "u", "c", "a", "t", "i", "o", "n">>],
      [content |-> <<"c", "v">>, candidate_name |-> Unknown, section |-> FullText] }

InitAnswer ==
    /\ session_file_hashes = [s \in Sessions |-> <<>>]
    /\ file_info = [s \in Sessions |-> <<>>]
    /\ uploaded_files = [s \in Sessions |-> <<>>]
    /\ pc = [s \in Sessions |-> Idle]
    /\ run = [s \in Sessions |-> NoRun]
    /\ points = <<>>
    /\ index_calls = [h \in Files |-> 0]
    /\ runs = 0
    /\ ev = NoEvent
    /\ cText = <<>> /\ cReply = ReplyRaise /\ cOut = NotCalled
    /\ aQuery \in AnswerQueries
    /\ aContexts \in SeqsUpTo(ContextPool, MaxContexts)
    /\ aCandidates = << <<"B", "o", " ", "L", "i">>, Unknown, <<"B", "o", " ", "L", "i">> >>
    /\ aOut = NotCalled

CallGenerateAnswer ==
    /\ ~aOut.called
    /\ \E llm \in LlmOutcomes :
          aOut' = [called |-> TRUE, via |-> "generate_answer", generated |-> TRUE,
                   answer |-> generate_answer(aQuery, aContexts, aCandidates, llm)]
    /\ UNCHANGED <<aQuery, aContexts, aCandidates, appVars, chunkVars>>

CallAnswerStage ==
    /\ ~aOut.called
    /\ \E a \in AnswerStage(aQuery, aContexts, aCandidates) :
          aOut' = [called |-> TRUE, via |-> "tab1", generated |-> a.generated,
                   answer |-> a.answer]
    /\ UNCHANGED <<aQuery, aContexts, aCandidates, appVars, chunkVars>>

NextAnswer == CallGenerateAnswer \/ CallAnswerStage

SpecAnswer == InitAnswer /\ [][NextAnswer]_vars

----------------------------------------------------------------------------
(* The claims.                                                             *)

Min(a, b) == IF a < b THEN a ELSE b

NoDuplicates(l) == \A i, j \in 1..Len(l) : l[i] = l[j] => i = j

\* the step just taken called retrieve (from tab 1, or on its own)
Retrieved ==
    \/ ev.kind = "retrieve"
    \/ ev.kind = "search" /\ ~ev.error

\* C1: every context retrieve returns is the payload of a stored point whose
\* file_hash is in the file_hashes it was called with, with or without
\* candidate names; with no file hashes it returns nothing and does not query
\* the index; tab 1 calls it with the session's own session_file_hashes, so a
\* search never returns a chunk of a file the session does not hold.
SessionIsolation ==
    Retrieved =>
        LET r == ev.retrieved
        IN  /\ Len(r.contexts) = Len(r.hits)
            /\ \A i \in 1..Len(r.hits) :
                  /\ r.hits[i] \in Range(points)
                  /\ r.hits[i].file_hash \in Range(ev.file_hashes)
                  /\ r.contexts[i].content = r.hits[i].content
                  /\ r.contexts[i].candidate_name = r.hits[i].candidate_name
                  /\ r.contexts[i].section = r.hits[i].section
            /\ ev.file_hashes = <<>> => ~r.queried /\ r.contexts = <<>>
            /\ ev.kind = "search" =>
                  /\ ev.file_hashes = session_file_hashes[ev.s]
                  /\ \A i \in 1..Len(r.hits) :
                        r.hits[i].file_hash \in Range(session_file_hashes[ev.s])

\* C1 witness: a search that returned chunks while the index also held a
\* file of another session that the searching session does not hold
SessionIsolationWitness ==
    /\ ev.kind = "search" /\ ~ev.error
    /\ ev.retrieved.contexts # <<>>
    /\ \E p \in Range(points) : p.file_hash \notin Range(session_file_hashes[ev.s])

\* the reply leaves the code's fallback as the only way out, by the claim's list:
\* the call raised, no JSON object, unparsable JSON, or no section whose
\* stripped content is longer than 40 characters
NoLongSection(reply) ==
    /\ reply.kind = "json"
    /\ reply.sections.t = "list" =>
          \A i \in 1..Len(reply.sections.v) :
             LET s == reply.sections.v[i]
             IN  ~(s.dict /\ s.content.t = "str" /\ Len(Strip(s.content.v)) > MinContent)

\* the reply is what the prompt asks for, as far as types go
WellFormed(reply) ==
    /\ reply.kind = "json"
    /\ reply.candidate_name.t \in {"missing", "str"}
    /\ reply.sections.t \in {"missing", "list"}
    /\ reply.sections.t = "list" =>
          \A i \in 1..Len(reply.sections.v) :
             /\ reply.sections.v[i].dict
             /\ reply.sections.v[i].content.t \in {"missing", "str"}

\* the name the model returned, stripped; "Unknown" when it returned none
ReturnedName(reply) ==
    IF reply.candidate_name.t = "str" THEN Strip(reply.candidate_name.v) ELSE Unknown

IsFallback(result, text, name) ==
    /\ ~result.raised
    /\ result.candidate_name = name
    /\ Len(result.chunks) = 1
    /\ result.chunks[1].content = text
    /\ result.chunks[1].metadata.section = FullText
    /\ result.chunks[1].metadata.candidate_name = name

GuardedSubstrings ==
    { <<"i", "g", "n", "o", "r", "e", " ", "p", "r", "e", "v", "i", "o", "u", "s", " ", "i", "n", "s", "t", "r", "u", "c", "t", "i", "o", "n", "s">>, <<"d", "i", "s", "r", "e", "g", "a", "r", "d">>, <<"o", "v", "e", "r", "r", "i", "d", "e">>,
      <<"i", "n", "s", "t", "e", "a", "d", " ", "d", "o">>, <<"j", "u", "s", "t", " ", "o", "u", "t", "p", "u", "t">> }

HasGuardedSubstring(query) ==
    \E p \in GuardedSubstrings : Contains(p, Lower(query))

\* C3: with contexts, a question whose lower-cased text contains one of the
\* five substrings gets the fixed refusal and the generation model is not
\* called; any other question is passed to the generation model.
InjectionGuard ==
    (aOut.called /\ aOut.via = "generate_answer" /\ aContexts # <<>>) =>
        IF HasGuardedSubstring(aQuery)
        THEN /\ aOut.answer.answer = InjectionMsg
             /\ ~aOut.answer.called
        ELSE /\ aOut.answer.called
             /\ aOut.answer.prompt.question = aQuery

\* C3 witness: a question in mixed case, put together from two fragments, was
\* refused
InjectionGuardWitness ==
    /\ aOut.called /\ aOut.via = "generate_answer" /\ aContexts # <<>>
    /\ aQuery # Lower(aQuery)
    /\ ~aOut.answer.called
    /\ aOut.answer.answer = InjectionMsg
    /\ \A f \in Fragments : aQuery # f

\* the points a filter by file hashes, and by candidate names when given, keeps
ScopedPoints(file_hashes, candidate_names) ==
    {p \in Range(points) :
        /\ p.file_hash \in Range(file_hashes)
        /\ (~candidate_names.none /\ candidate_names.v # <<>>) =>
              \E i \in 1..Len(candidate_names.v) :
                 p.candidate_name_lower = Strip(Lower(candidate_names.v[i]))}

\* C4: with candidate names, the hits are points whose candidate_name_lower
\* is the lower-cased stripped form of one of them (and whose file_hash is in
\* file_hashes); without, all points of the file hashes qualify; and a name
\* read from a session's file_info selects the points indexed for that file
\* under that name.
CandidateScoping ==
    /\ Retrieved /\ ev.file_hashes # <<>> =>
          LET scoped == ScopedPoints(ev.file_hashes, ev.candidate_names)
          IN  /\ Range(ev.retrieved.hits) \subseteq scoped
              /\ NoDuplicates(ev.retrieved.hits)
              /\ Len(ev.retrieved.hits) = Min(TopK, Cardinality(scoped))
    /\ \A s \in Sessions : \A i \in 1..Len(file_info[s]) :
          LET e == file_info[s][i]
              wanted == Strip(Lower(Strip(e.candidate)))
          IN  /\ \E p \in Range(points) :
                    /\ p.file_hash = e.key
                    /\ p.candidate_name = e.candidate
              /\ \A p \in Range(points) :
                    p.candidate_name = e.candidate => p.candidate_name_lower = wanted

\* C4 witness: a search that named a candidate and left out a point of the
\* session's own files that belongs to another candidate
CandidateScopingWitness ==
    /\ ev.kind = "search" /\ ~ev.error
    /\ ~ev.candidate_names.none
    /\ ev.retrieved.hits # <<>>
    /\ \E p \in Range(points) :
          /\ p.file_hash \in Range(session_file_hashes[ev.s])
          /\ p \notin Range(ev.retrieved.hits)

\* C5: index_documents is executed at most once for each file hash.
IndexOnce == \A h \in Files : index_calls[h] <= 1

ReportCalledWhenComplete ==
    ev.kind = "analyze" =>
        /\ ev.out.called <=>
              /\ ev.uploaded_cv # 0
              /\ Strip(ev.job_description) # <<>>
              /\ Strip(extract_text_from_pdf(ev.uploaded_cv)) # <<>>
        /\ ~ev.out.called <=> ev.out.error # ""

\* C7 (step part): pressing Analyze CV, and every step of the script run it
\* starts, leaves session_file_hashes, file_info and the index as they were.
ReportLeavesChatState ==
    \A s \in Sessions :
        ((run[s] = "analyze" /\ pc'[s] # pc[s]) \/ (run'[s] = "analyze" /\ run[s] # "analyze"))
            => /\ session_file_hashes'[s] = session_file_hashes[s]
               /\ file_info'[s] = file_info[s]
               /\ points' = points

BookkeepingInvariant ==
    \A s \in Sessions :
        /\ NoDuplicates(session_file_hashes[s])
        /\ NoDuplicates([i \in 1..Len(file_info[s]) |-> file_info[s][i].key])
        /\ DictKeys(file_info[s]) = Range(session_file_hashes[s])

\* C8 (step part): an upload that is skipped changes neither.
SkipChangesNothing ==
    ev'.kind = "skip" => UNCHANGED <<session_file_hashes, file_info>>

\* C8: the session bookkeeping invariant.
SessionBookkeeping == []BookkeepingInvariant /\ [][SkipChangesNothing]_vars

\* C8 witness: the same file twice in the uploader, the second one skipped
SessionBookkeepingWitness ==
    /\ ev.kind = "skip" /\ ev.why = "in session"
    /\ \E i, j \in 1..Len(uploaded_files[ev.s]) :
          i # j /\ uploaded_files[ev.s][i] = uploaded_files[ev.s][j]
    /\ Len(session_file_hashes[ev.s]) = 1
    /\ pc[ev.s] = Idle

\* C9 (state part): every hash of a session has a point in the index, and a
\* file without extractable text is neither indexed nor in a session.
HashesHavePointsInvariant ==
    /\ \A s \in Sessions : \A i \in 1..Len(session_file_hashes[s]) :
          \E p \in Range(points) : p.file_hash = session_file_hashes[s][i]
    /\ \A f \in Files :
          Strip(extract_text_from_pdf(f)) = <<>> =>
              /\ \A p \in Range(points) : p.file_hash # calculate_file_hash(f)
              /\ \A s \in Sessions :
                    calculate_file_hash(f) \notin Range(session_file_hashes[s])

\* C9 (step part): no step removes or changes a point.
PointsOnlyAdded ==
    /\ Len(points') >= Len(points)
    /\ \A i \in 1..Len(points) : points'[i] = points[i]

\* C9: every hash of a session has a point in the index.
HashesHavePoints == []HashesHavePointsInvariant /\ [][PointsOnlyAdded]_vars

\* C9 witness: a session holds a CV after a run over an uploader that also
\* held the file without text
HashesHavePointsWitness ==
    \E s \in Sessions :
        /\ pc[s] = Idle
        /\ BlankFile \in Range(uploaded_files[s])
        /\ session_file_hashes[s] # <<>>
        /\ ev.kind = "skip" /\ ev.why = "no text"

====
